---- MODULE Spec2Model ----
(***************************************************************************)
(* Streaming payments contract (src/src/lib.rs): a payer escrows tokens    *)
(* in the contract with c_stream, the payee draws them tick by tick with   *)
(* w_stream, and the payer may stop a cancellable stream with s_stream.    *)
(* Every contract call is one atomic host transaction: a panic rolls back  *)
(* every write of the call.                                                *)
(***************************************************************************)
EXTENDS Integers, FiniteSets, Sequences, TLC

\* ------------------------------------------------------------- bounds
\* The ledger timestamp ranges over 0..MaxTime.
MaxTime == 4
\* Stream amounts offered to c_stream range over 0..MaxAmount.
MaxAmount == 2
\* At most MaxStreams streams are created.
MaxStreams == 2
\* Stored nonces and the nonces offered by callers range over 0..MaxNonce.
MaxNonce == 2
\* Tokens minted to the payer and approved for the contract before the run.
InitBalance == 3
\* Width in bits of the model's unsigned time word. The source's times are
\* u64; the model keeps the wrap-around of an unsigned subtraction at
\* 2 ^ TimeBits, above every time it offers.
TimeBits == 3

U64 == 2 ^ TimeBits

\* ------------------------------------------------------------- values
Users == {"u1", "u2"}
Contract == "contract"
Holders == Users \cup {Contract}

Ok == "Ok"
StreamNotExist == "StreamNotExist"
NotAuthorized == "NotAuthorized"
IncorrectNonceForInvoker == "IncorrectNonceForInvoker"
IncorrectNonce == "IncorrectNonce"
StreamCancelled == "StreamCancelled"
StreamNotCancellable == "StreamNotCancellable"
StreamDone == "StreamDone"
\* Panics that carry no contract error code: a signature that does not
\* verify, a token transfer the token contract refuses, an arithmetic panic.
VerifyFailed == "VerifyFailed"
TransferFailed == "TransferFailed"
ArithmeticPanic == "ArithmeticPanic"

\* Signature::Invoker carries the invoking account; Signature::Ed25519 and
\* Signature::Account carry a key and a signature that verifies or not.
Signature ==
    [kind : {"Invoker"}, id : Users, valid : {TRUE}]
        \cup [kind : {"Ed25519"}, id : Users, valid : BOOLEAN]

\* The schedules (start_time, end_time, tick_time) offered to c_stream.
Schedules ==
    { <<1, 3, 2>>, <<0, 3, 2>>, <<0, 2, 0>> }

Stream ==
    { [from |-> "u1", to |-> "u2", amount |-> a, start_time |-> s[1],
       end_time |-> s[2], tick_time |-> s[3], able_stop |-> b] :
        a \in 0..MaxAmount, s \in Schedules, b \in BOOLEAN }

\* A ledger entry under DataKey::StreamData(id): the StreamData record that
\* c_stream and set_stream_data_cancelled store, or the bare BigInt that
\* update_amount_withdrawn stores (a_withdraw holds the number).
StreamData(a, c) == [tag |-> "StreamData", a_withdraw |-> a, cancelled |-> c]
BigInt(v) == [tag |-> "BigInt", a_withdraw |-> v, cancelled |-> FALSE]

VARIABLES
    timestamp,        \* env.ledger().timestamp()
    overflow_checks,  \* build profile: u64 overflow panics (TRUE) or wraps
    next_stream_id,   \* DataKey::StreamId
    streams,          \* DataKey::Stream(id), a sequence indexed by id + 1
    stream_data,      \* DataKey::StreamData(id), a sequence indexed by id + 1
    nonces,           \* DataKey::Nonce(identifier)
    balance,          \* token balances of the users and of the contract
    allowance,        \* token allowance each user granted to the contract
    settled,          \* per stream: tokens xfer'd to the payee and to the payer
    last              \* the call accepted last at the current timestamp

vars ==
    <<timestamp, overflow_checks, next_stream_id, streams, stream_data,
      nonces, balance, allowance, settled, last>>

NoCall ==
    [op |-> "none", kind |-> "Invoker", id |-> "u1", nonce |-> 0,
     stream_id |-> 0, paid |-> 0]

Call(op, sig, nonce, stream_id, paid) ==
    [op |-> op, kind |-> sig.kind, id |-> sig.id, nonce |-> nonce,
     stream_id |-> stream_id, paid |-> paid]

\* ------------------------------------------------------------- helpers
identifier(sig) == sig.id

\* soroban_auth::verify: nothing to check for the invoker, the signature
\* over (function, arguments) otherwise.
verify(sig) == sig.kind = "Invoker" \/ sig.valid

get_nonce(ns, id) == ns[id]

set_nonce(ns, id, nonce) == [ns EXCEPT ![id] = nonce]

\* Faulty variant: a delegated nonce is checked but never consumed, so a
\* signed call can be replayed.
verify_and_consume_nonce_replayable(ns, sig, nonce) ==
    IF sig.kind = "Invoker"
    THEN IF nonce # 0
         THEN [err |-> IncorrectNonceForInvoker, nonces |-> ns]
         ELSE [err |-> Ok, nonces |-> ns]
    ELSE IF nonce # get_nonce(ns, identifier(sig))
         THEN [err |-> IncorrectNonce, nonces |-> ns]
         ELSE [err |-> Ok, nonces |-> ns]

\* Faulty variant: the invoker's nonce is checked against the stored nonce
\* and consumed, like a delegated one.
verify_and_consume_nonce_invoker_counted(ns, sig, nonce) ==
    IF nonce # get_nonce(ns, identifier(sig))
    THEN [err |-> IncorrectNonce, nonces |-> ns]
    ELSE [err |-> Ok, nonces |-> set_nonce(ns, identifier(sig), nonce + 1)]

verify_and_consume_nonce(ns, sig, nonce) ==
    IF sig.kind = "Invoker"
    THEN IF nonce # 0
         THEN [err |-> IncorrectNonceForInvoker, nonces |-> ns]
         ELSE [err |-> Ok, nonces |-> ns]
    ELSE IF nonce # get_nonce(ns, identifier(sig))
         THEN [err |-> IncorrectNonce, nonces |-> ns]
         ELSE [err |-> Ok, nonces |-> set_nonce(ns, identifier(sig), nonce + 1)]

\* token xfer out of the contract's balance.
xfer(bal, to, amount) ==
    IF amount < 0 \/ bal[Contract] < amount
    THEN [err |-> TransferFailed, balance |-> bal]
    ELSE [err |-> Ok,
          balance |-> [bal EXCEPT ![Contract] = @ - amount, ![to] = @ + amount]]

\* token xfer_from with the contract as spender, into the contract's balance.
xfer_from(bal, allow, from, amount) ==
    IF amount < 0 \/ bal[from] < amount \/ allow[from] < amount
    THEN [err |-> TransferFailed, balance |-> bal, allowance |-> allow]
    ELSE [err |-> Ok,
          balance |-> [bal EXCEPT ![from] = @ - amount, ![Contract] = @ + amount],
          allowance |-> [allow EXCEPT ![from] = @ - amount]]

stream_exists(stream_id) == stream_id + 1 \in DOMAIN streams

get_stream(stream_id) == streams[stream_id + 1]

\* get_stream_data decodes the entry as a StreamData record; an entry that is
\* not one is answered like a missing entry.
stream_data_readable(stream_id) ==
    /\ stream_id + 1 \in DOMAIN stream_data
    /\ stream_data[stream_id + 1].tag = "StreamData"

get_stream_data(stream_id) == stream_data[stream_id + 1]

set_stream_data_cancelled(sd, stream_id) ==
    [sd EXCEPT ![stream_id + 1] = StreamData(0, TRUE)]

update_amount_withdrawn(sd, stream_id, total_amount_withdrawn) ==
    [sd EXCEPT ![stream_id + 1] = BigInt(total_amount_withdrawn)]

\* Faulty variant: the subtraction is done on signed integers.
sub_u64_signed(a, b, checks) == [ok |-> TRUE, val |-> a - b]

\* u64 subtraction: a panic with overflow checks, a wrap without.
sub_u64(a, b, checks) ==
    IF a >= b THEN [ok |-> TRUE, val |-> a - b]
    ELSE IF checks THEN [ok |-> FALSE, val |-> 0]
    ELSE [ok |-> TRUE, val |-> U64 + a - b]

\* Faulty variant: the total number of ticks is not rounded up.
entitled_ticks_floor(stream, now, checks) ==
    IF stream.end_time < now
    THEN [ok |-> TRUE, val |-> stream.amount]
    ELSE LET duration == sub_u64(stream.end_time, stream.start_time, checks)
             time_elapsed == sub_u64(now, stream.start_time, checks)
         IN  IF ~duration.ok \/ ~time_elapsed.ok \/ stream.tick_time = 0
             THEN [ok |-> FALSE, val |-> 0]
             ELSE LET total_ticks == duration.val \div stream.tick_time
                      elapsed_ticks == time_elapsed.val \div stream.tick_time
                  IN  IF total_ticks = 0
                      THEN [ok |-> FALSE, val |-> 0]
                      ELSE [ok |-> TRUE,
                            val |-> (stream.amount \div total_ticks)
                                        * elapsed_ticks]

\* The cumulative amount w_stream lets the payee have drawn at time now.
entitled(stream, now, checks) ==
    IF stream.end_time < now
    THEN [ok |-> TRUE, val |-> stream.amount]
    ELSE LET duration == sub_u64(stream.end_time, stream.start_time, checks)
             time_elapsed == sub_u64(now, stream.start_time, checks)
         IN  IF ~duration.ok \/ ~time_elapsed.ok \/ stream.tick_time = 0
             THEN [ok |-> FALSE, val |-> 0]
             ELSE LET total_ticks ==
                          (duration.val \div stream.tick_time)
                              + (IF duration.val % stream.tick_time # 0
                                 THEN 1 ELSE 0)
                      elapsed_ticks == time_elapsed.val \div stream.tick_time
                  IN  IF total_ticks = 0
                      THEN [ok |-> FALSE, val |-> 0]
                      ELSE [ok |-> TRUE,
                            val |-> (stream.amount \div total_ticks)
                                        * elapsed_ticks]

Failed(err) ==
    [err |-> err, paid |-> 0, nonces |-> nonces, balance |-> balance,
     allowance |-> allowance, stream_data |-> stream_data]

\* ------------------------------------------------------------- c_stream
\* Faulty variant: a refused escrow transfer is answered as an error the call
\* returns, so the nonce set_nonce wrote before the transfer stays written.
c_stream_nonce_spent(sig, nonce, stream) ==
    LET n == verify_and_consume_nonce(nonces, sig, nonce)
        t == xfer_from(balance, allowance, stream.from, stream.amount)
    IN  IF ~verify(sig) THEN Failed(VerifyFailed)
        ELSE IF n.err # Ok THEN Failed(n.err)
        ELSE IF t.err # Ok THEN [Failed(t.err) EXCEPT !.nonces = n.nonces]
        ELSE [err |-> Ok, paid |-> 0, nonces |-> n.nonces,
              balance |-> t.balance, allowance |-> t.allowance,
              stream_data |-> Append(stream_data, StreamData(0, FALSE))]

c_stream(sig, nonce, stream) ==
    LET n == verify_and_consume_nonce(nonces, sig, nonce)
        t == xfer_from(balance, allowance, stream.from, stream.amount)
    IN  IF ~verify(sig) THEN Failed(VerifyFailed)
        ELSE IF n.err # Ok THEN Failed(n.err)
        ELSE IF t.err # Ok THEN Failed(t.err)
        ELSE [err |-> Ok, paid |-> 0, nonces |-> n.nonces,
              balance |-> t.balance, allowance |-> t.allowance,
              stream_data |-> Append(stream_data, StreamData(0, FALSE))]

\* ------------------------------------------------------------- w_stream
w_stream(sig, nonce, stream_id) ==
    IF ~stream_exists(stream_id) \/ ~stream_data_readable(stream_id)
    THEN Failed(StreamNotExist)
    ELSE
    LET stream == get_stream(stream_id)
        data == get_stream_data(stream_id)
        id == identifier(sig)
        n == verify_and_consume_nonce(nonces, sig, nonce)
        e == entitled(stream, timestamp, overflow_checks)
        amount_to_withdraw == e.val - data.a_withdraw
        t == xfer(balance, stream.to, amount_to_withdraw)
    IN  IF id # stream.to THEN Failed(NotAuthorized)
        ELSE IF data.cancelled THEN Failed(StreamCancelled)
        ELSE IF data.a_withdraw = stream.amount THEN Failed(StreamDone)
        ELSE IF ~verify(sig) THEN Failed(VerifyFailed)
        ELSE IF n.err # Ok THEN Failed(n.err)
        ELSE IF ~e.ok THEN Failed(ArithmeticPanic)
        ELSE IF t.err # Ok THEN Failed(t.err)
        ELSE [err |-> Ok, paid |-> amount_to_withdraw, nonces |-> n.nonces,
              balance |-> t.balance, allowance |-> allowance,
              stream_data |->
                  update_amount_withdrawn(stream_data, stream_id,
                      data.a_withdraw + amount_to_withdraw)]

\* ------------------------------------------------------------- s_stream
\* Faulty variant: a delegated cancel spends the signer's nonce, as a
\* delegated create or withdraw does.
s_stream_nonce_spent(sig, stream_id) ==
    IF ~stream_exists(stream_id) \/ ~stream_data_readable(stream_id)
    THEN Failed(StreamNotExist)
    ELSE
    LET stream == get_stream(stream_id)
        data == get_stream_data(stream_id)
        id == identifier(sig)
        n == verify_and_consume_nonce(nonces, sig, get_nonce(nonces, id))
        t == xfer(balance, id, stream.amount - data.a_withdraw)
    IN  IF stream.from # id THEN Failed(NotAuthorized)
        ELSE IF ~stream.able_stop THEN Failed(StreamNotCancellable)
        ELSE IF data.cancelled THEN Failed(StreamCancelled)
        ELSE IF ~verify(sig) THEN Failed(VerifyFailed)
        ELSE IF t.err # Ok THEN Failed(t.err)
        ELSE [err |-> Ok, paid |-> stream.amount - data.a_withdraw,
              nonces |-> IF sig.kind = "Invoker" THEN nonces ELSE n.nonces,
              balance |-> t.balance, allowance |-> allowance,
              stream_data |-> set_stream_data_cancelled(stream_data, stream_id)]

s_stream(sig, stream_id) ==
    IF ~stream_exists(stream_id) \/ ~stream_data_readable(stream_id)
    THEN Failed(StreamNotExist)
    ELSE
    LET stream == get_stream(stream_id)
        data == get_stream_data(stream_id)
        id == identifier(sig)
        t == xfer(balance, id, stream.amount - data.a_withdraw)
    IN  IF stream.from # id THEN Failed(NotAuthorized)
        ELSE IF ~stream.able_stop THEN Failed(StreamNotCancellable)
        ELSE IF data.cancelled THEN Failed(StreamCancelled)
        ELSE IF ~verify(sig) THEN Failed(VerifyFailed)
        ELSE IF t.err # Ok THEN Failed(t.err)
        ELSE [err |-> Ok, paid |-> stream.amount - data.a_withdraw,
              nonces |-> nonces, balance |-> t.balance,
              allowance |-> allowance,
              stream_data |-> set_stream_data_cancelled(stream_data, stream_id)]

\* ------------------------------------------------------------- get_stream
\* The contract's get_stream entry point: the Stream and its StreamData.
StreamingContract_get_stream(stream_id) ==
    IF ~stream_exists(stream_id) \/ ~stream_data_readable(stream_id)
    THEN [err |-> StreamNotExist]
    ELSE [err |-> Ok, stream |-> get_stream(stream_id),
          data |-> get_stream_data(stream_id)]

\* ------------------------------------------------------------- actions
Init ==
    /\ timestamp = 0
    /\ overflow_checks \in BOOLEAN
    /\ next_stream_id = 0
    /\ streams = <<>>
    /\ stream_data = <<>>
    /\ nonces = [u \in Users |-> 0]
    /\ balance = [h \in Holders |-> IF h = "u1" THEN InitBalance ELSE 0]
    /\ allowance = [u \in Users |-> IF u = "u1" THEN InitBalance ELSE 0]
    /\ settled = <<>>
    /\ last = NoCall

\* The call returns, within the nonces the model follows.
Returns(r) == r.err = Ok /\ \A u \in Users : r.nonces[u] <= MaxNonce

\* A call that panics is rolled back by the host: no variable changes.
Commit(r, call, paid_out) ==
    IF Returns(r)
    THEN /\ nonces' = r.nonces
         /\ balance' = r.balance
         /\ allowance' = r.allowance
         /\ stream_data' = r.stream_data
         /\ settled' = paid_out
         /\ last' = call
    ELSE UNCHANGED <<nonces, balance, allowance, stream_data, settled, last>>

CStream ==
    \E sig \in Signature, nonce \in 0..MaxNonce, stream \in Stream :
        LET r == c_stream(sig, nonce, stream)
        IN  /\ next_stream_id < MaxStreams
            /\ Commit(r, Call("c_stream", sig, nonce, next_stream_id, 0),
                      Append(settled, [to_payee |-> 0, to_payer |-> 0]))
            /\ IF Returns(r)
               THEN /\ streams' = Append(streams, stream)
                    /\ next_stream_id' = next_stream_id + 1
               ELSE UNCHANGED <<streams, next_stream_id>>
            /\ UNCHANGED <<timestamp, overflow_checks>>

\* w_stream called on one stream.
WStreamOf(stream_id) ==
    \E sig \in Signature, nonce \in 0..MaxNonce :
        LET r == w_stream(sig, nonce, stream_id)
        IN  /\ Commit(r, Call("w_stream", sig, nonce, stream_id, r.paid),
                      [settled EXCEPT ![stream_id + 1].to_payee = @ + r.paid])
            /\ UNCHANGED <<timestamp, overflow_checks, next_stream_id, streams>>

WStream == \E stream_id \in 0..(MaxStreams - 1) : WStreamOf(stream_id)

SStream ==
    \E sig \in Signature, stream_id \in 0..(MaxStreams - 1) :
        LET r == s_stream(sig, stream_id)
        IN  /\ Commit(r, Call("s_stream", sig, 0, stream_id, r.paid),
                      [settled EXCEPT ![stream_id + 1].to_payer = @ + r.paid])
            /\ UNCHANGED <<timestamp, overflow_checks, next_stream_id, streams>>

AdvanceTime ==
    /\ timestamp < MaxTime
    /\ timestamp' = timestamp + 1
    /\ last' = NoCall
    /\ UNCHANGED <<overflow_checks, next_stream_id, streams, stream_data,
                   nonces, balance, allowance, settled>>

Next == CStream \/ WStream \/ SStream \/ AdvanceTime

Spec == Init /\ [][Next]_vars

\* The runs of one stream whose calls are all self-authorized.
OneStream ==
    /\ last'.kind = "Invoker"
    /\ next_stream_id' <= 1

FairNext ==
    \/ CStream /\ OneStream
    \/ WStream /\ OneStream
    \/ SStream /\ OneStream
    \/ AdvanceTime

\* Those runs in which the ledger closes ledgers for as long as the model
\* follows the clock and the payee keeps calling w_stream.
FairSpec ==
    /\ Init /\ [][FairNext]_vars
    /\ WF_vars(AdvanceTime)
    /\ \A stream_id \in 0..(MaxStreams - 1) : WF_vars(WStreamOf(stream_id))

\* ------------------------------------------------------------- vocabulary
\* The stored streams, by their index in streams and stream_data (id + 1).
Stored == DOMAIN streams

Invoker(u) == [kind |-> "Invoker", id |-> u, valid |-> TRUE]

\* The amount_withdrawn the ledger holds for a stream.
amount_withdrawn(i) == stream_data[i].a_withdraw

Cancelled(i) == stream_data[i].cancelled

Done(i) == ~Cancelled(i) /\ amount_withdrawn(i) = streams[i].amount

Active(i) == ~Cancelled(i) /\ amount_withdrawn(i) # streams[i].amount

\* The terms the stream schedule is meant to satisfy; c_stream checks none.
WellFormed(stream) ==
    stream.end_time > stream.start_time /\ stream.tick_time > 0

\* The step commits a call: a call that panics changes nothing, and every
\* committed call writes the stream-id counter or a StreamData entry.
Accepted ==
    /\ last'.op # "none"
    /\ <<next_stream_id, stream_data>>' # <<next_stream_id, stream_data>>

\* ------------------------------------------------------------- claims

\* C1 (as claimed): in every reachable state every stored stream has
\* 0 <= amount_withdrawn <= stream.amount.
C1_WithdrawnWithinAmount ==
    \A i \in Stored :
        0 <= amount_withdrawn(i) /\ amount_withdrawn(i) <= streams[i].amount

\* C2 (as claimed): on a stream with end_time > start_time and
\* tick_time > 0, a withdraw by the payee that succeeds at a time
\* now >= end_time pays amount - amount_withdrawn and leaves amount_withdrawn
\* equal to amount, and on such a stream that is Done every withdraw by the
\* payee fails with StreamDone.
C2_FullPayoutFromEndTime ==
    /\ [][ (Accepted /\ last'.op = "w_stream")
            => LET i == last'.stream_id + 1
               IN  (WellFormed(streams[i])
                        /\ timestamp >= streams[i].end_time)
                    => /\ last'.paid = streams[i].amount - amount_withdrawn(i)
                       /\ stream_data'[i].a_withdraw = streams[i].amount ]_vars
    /\ [](\A i \in Stored :
            (WellFormed(streams[i]) /\ Done(i))
              => w_stream(Invoker(streams[i].to), 0, i - 1).err = StreamDone)

\* C3 (as claimed): for every stored stream and all times now1 < now2 the
\* entitlement w_stream computes at now1 is at most the one it computes at
\* now2 (compared wherever the computation yields a value).
C3_EntitledMonotonic ==
    \A i \in Stored : \A now1, now2 \in 0..MaxTime :
        LET e1 == entitled(streams[i], now1, overflow_checks)
            e2 == entitled(streams[i], now2, overflow_checks)
        IN  (now1 < now2 /\ e1.ok /\ e2.ok) => e1.val <= e2.val

\* C4 (as claimed): on an Active stream with start_time <= now < end_time
\* and entitled(now) > amount_withdrawn a withdraw by the payee succeeds and
\* pays a non-zero amount, and right after such a withdraw a second one at the
\* same time succeeds, pays 0 and leaves balance and amount_withdrawn as
\* they are.
C4_WithdrawIdempotent ==
    /\ \A i \in Stored :
        LET e == entitled(streams[i], timestamp, overflow_checks)
            r == w_stream(Invoker(streams[i].to), 0, i - 1)
        IN  (/\ stream_data[i].tag = "StreamData" /\ Active(i)
             /\ streams[i].start_time <= timestamp
             /\ timestamp < streams[i].end_time
             /\ e.ok /\ e.val > amount_withdrawn(i))
              => r.err = Ok /\ r.paid > 0
    /\ LET i == last.stream_id + 1
           r == w_stream(Invoker(streams[i].to), 0, last.stream_id)
       IN  (/\ last.op = "w_stream" /\ last.paid > 0
            /\ streams[i].start_time <= timestamp
            /\ timestamp < streams[i].end_time)
             => /\ r.err = Ok /\ r.paid = 0
                /\ r.balance = balance
                /\ r.stream_data[i].a_withdraw = amount_withdrawn(i)

\* C5 (as claimed): on a stream with able_stop = TRUE that is not cancelled
\* and has amount_withdrawn = w with 0 <= w <= amount, a cancel by the payer
\* succeeds, moves exactly amount - w from the contract to the payer and sets
\* cancelled; on a cancelled stream a withdraw by the payee fails with
\* StreamCancelled.
C5_CancelRefundsUnwithdrawn ==
    \A i \in Stored :
        LET r == s_stream(Invoker(streams[i].from), i - 1)
            w == amount_withdrawn(i)
        IN  /\ (/\ streams[i].able_stop /\ ~Cancelled(i)
                /\ 0 <= w /\ w <= streams[i].amount)
                 => /\ r.err = Ok
                    /\ r.paid = streams[i].amount - w
                    /\ r.balance[Contract] = balance[Contract] - r.paid
                    /\ r.stream_data[i].cancelled
            /\ Cancelled(i)
                 => w_stream(Invoker(streams[i].to), 0, i - 1).err
                        = StreamCancelled

\* C6 (as claimed): in every reachable state a cancel by the payer fails
\* with StreamCancelled on a stream already cancelled and with
\* StreamNotCancellable on a stream created with able_stop = FALSE, and such
\* a stream is never cancelled.
C6_CancelExclusive ==
    \A i \in Stored :
        LET r == s_stream(Invoker(streams[i].from), i - 1)
        IN  /\ Cancelled(i) => r.err = StreamCancelled
            /\ ~streams[i].able_stop
                 => r.err = StreamNotCancellable /\ ~Cancelled(i)

\* C7 (as claimed): no step changes the StreamData of a stream that is Done
\* or Cancelled.
C7_TerminalStates ==
    [][ \A i \in Stored :
            (Done(i) \/ Cancelled(i)) => stream_data'[i] = stream_data[i] ]_vars

\* C8 (as claimed): every accepted delegated call (create, withdraw or
\* cancel) raises the signer's stored nonce by exactly 1, and no other step
\* changes a stored nonce.
C8_NonceCountsDelegatedCalls ==
    [][ IF Accepted /\ last'.kind = "Ed25519"
        THEN nonces' = [nonces EXCEPT ![last'.id] = @ + 1]
        ELSE nonces' = nonces ]_vars

\* C8 (amended): every accepted delegated create or withdraw raises the
\* signer's stored nonce by exactly 1; a cancel and every other step leave
\* every stored nonce unchanged.
C8_NonceCountsCreateWithdraw ==
    [][ IF Accepted /\ last'.kind = "Ed25519"
            /\ last'.op \in {"c_stream", "w_stream"}
        THEN nonces' = [nonces EXCEPT ![last'.id] = @ + 1]
        ELSE nonces' = nonces ]_vars

\* C8 witness: an identity has signed MaxNonce accepted delegated calls, the
\* last of them a withdraw.
C8_Witness ==
    /\ last.op = "w_stream" /\ last.kind = "Ed25519"
    /\ nonces[last.id] = MaxNonce /\ MaxNonce >= 2

\* C9: a self-authorized create with a nonce other than 0 fails with
\* IncorrectNonceForInvoker, and so does a self-authorized withdraw that
\* reaches the nonce check (the payee's, on a stream neither cancelled nor
\* done), whatever the stored nonces are; an accepted self-authorized create
\* or withdraw carries nonce 0 and leaves every stored nonce unchanged.
C9_InvokerNonceZero ==
    /\ [](\A u \in Users, nonce \in 1..MaxNonce :
            /\ \A stream \in Stream :
                 c_stream(Invoker(u), nonce, stream).err
                     = IncorrectNonceForInvoker
            /\ \A i \in Stored :
                 LET err == w_stream(Invoker(u), nonce, i - 1).err
                 IN  /\ err # Ok
                     /\ (/\ stream_data[i].tag = "StreamData" /\ Active(i)
                         /\ u = streams[i].to)
                          => err = IncorrectNonceForInvoker)
    /\ [][ (/\ Accepted /\ last'.kind = "Invoker"
            /\ last'.op \in {"c_stream", "w_stream"})
            => last'.nonce = 0 /\ nonces' = nonces ]_vars

\* C9 witness: a self-authorized withdraw was accepted from an identity whose
\* stored nonce is not 0.
C9_Witness ==
    /\ last.op = "w_stream" /\ last.kind = "Invoker"
    /\ last.nonce = 0 /\ nonces[last.id] > 0

\* C10 (as claimed): a create that pulls a non-zero amount out of the
\* payer's balance is accepted only from the identity the stream names as
\* payer.
C10_CreateOnlyByPayer ==
    LET stream == streams[last.stream_id + 1]
    IN  (last.op = "c_stream" /\ stream.amount > 0) => last.id = stream.from

\* C11 (as claimed): on every stored stream, in every state of the stream,
\* a withdraw signed by an identity other than stream.to and a cancel signed
\* by an identity other than stream.from fail with NotAuthorized, whatever
\* the signature's validity and the nonce, and move no funds and consume no
\* nonce.
C11_AuthorizationFirst ==
    \A i \in Stored : \A sig \in Signature :
        /\ identifier(sig) # streams[i].to
             => \A nonce \in 0..MaxNonce :
                  LET r == w_stream(sig, nonce, i - 1)
                  IN  /\ r.err = NotAuthorized
                      /\ r.balance = balance /\ r.nonces = nonces
        /\ identifier(sig) # streams[i].from
             => LET r == s_stream(sig, i - 1)
                IN  /\ r.err = NotAuthorized
                    /\ r.balance = balance /\ r.nonces = nonces

\* The ledger state a call leaves behind is the state it was called in.
NoEffect(r) ==
    /\ r.nonces = nonces /\ r.balance = balance
    /\ r.allowance = allowance /\ r.stream_data = stream_data

\* One stream of each amount: c_stream reads no other term of the stream
\* it is given (the payer is the same in all).
Terms == {stream \in Stream : stream.able_stop /\ stream.start_time = 1}

\* C12: every call that fails leaves the nonces, the balances, the
\* allowances and every StreamData entry as they were, a delegated create
\* whose escrow transfer is refused included; and a step that commits no call
\* changes neither these nor the stream-id counter nor a Stream entry.
C12_FailureChangesNothing ==
    /\ [](/\ \A sig \in Signature, nonce \in 0..MaxNonce, stream \in Terms :
               LET r == c_stream(sig, nonce, stream)
               IN  r.err # Ok => NoEffect(r)
          /\ \A sig \in Signature, nonce \in 0..MaxNonce,
                stream_id \in 0..MaxStreams :
               LET r == w_stream(sig, nonce, stream_id)
               IN  r.err # Ok => NoEffect(r)
          /\ \A sig \in Signature, stream_id \in 0..MaxStreams :
               LET r == s_stream(sig, stream_id)
               IN  r.err # Ok => NoEffect(r))
    /\ [][ ~Accepted
            => UNCHANGED <<next_stream_id, streams, stream_data, nonces,
                           balance, allowance>> ]_vars

\* C12 witness: an identity that has already spent a nonce signs a create
\* with its current nonce, and the escrow transfer of that create is refused.
C12_Witness ==
    \E u \in Users, stream \in Terms :
        /\ nonces[u] > 0
        /\ c_stream([kind |-> "Ed25519", id |-> u, valid |-> TRUE],
                    nonces[u], stream).err = TransferFailed

\* C13 (as claimed): in every reachable state get_stream answers every id a
\* create returned, without StreamNotExist, with the terms the stream was
\* created with, and no step changes the terms of a stored stream.
C13_StreamsPermanent ==
    /\ [](\A i \in Stored :
            LET r == StreamingContract_get_stream(i - 1)
            IN  r.err = Ok /\ r.stream = streams[i])
    /\ [][ \A i \in Stored : i \in DOMAIN streams' /\ streams'[i] = streams[i] ]_vars

\* C14 (as claimed): while the clock advances and the payee keeps calling
\* w_stream, every stored stream that is never cancelled eventually is Done,
\* the payee having received exactly stream.amount from it.
C14_EventuallyDone ==
    \A i \in 1..MaxStreams :
        (i \in Stored)
            ~> (/\ i \in Stored
                /\ \/ Cancelled(i)
                   \/ Done(i) /\ settled[i].to_payee = streams[i].amount)

\* ceil(a / b) and floor(a / b) of natural numbers, b > 0.
Ceil(a, b) == (a + b - 1) \div b

Floor(a, b) == a \div b

\* C15: an accepted withdraw on a stream at a time now with
\* start_time <= now < end_time pays exactly
\* floor(amount / ceil((end_time - start_time) / tick_time))
\*   * floor((now - start_time) / tick_time) - amount_withdrawn,
\* and what the stream has paid the payee by then is at most
\* amount * (now - start_time) / (end_time - start_time).
C15_TickFormula ==
    [][ (Accepted /\ last'.op = "w_stream")
         => LET i == last'.stream_id + 1
                stream == streams[i]
                duration == stream.end_time - stream.start_time
                time_elapsed == timestamp - stream.start_time
            IN  (stream.start_time <= timestamp
                     /\ timestamp < stream.end_time)
                 => /\ stream.tick_time > 0
                    /\ last'.paid
                         = Floor(stream.amount, Ceil(duration, stream.tick_time))
                               * Floor(time_elapsed, stream.tick_time)
                             - amount_withdrawn(i)
                    /\ settled'[i].to_payee * duration
                         <= stream.amount * time_elapsed ]_vars

\* C15 witness: a withdraw between start_time and end_time has paid part of
\* the stream's amount.
C15_Witness ==
    LET stream == streams[last.stream_id + 1]
    IN  /\ last.op = "w_stream"
        /\ stream.start_time <= timestamp /\ timestamp < stream.end_time
        /\ 0 < last.paid /\ last.paid < stream.amount

\* C16 (as claimed): an accepted withdraw that pays to_pay leaves the
\* stream's StreamData entry a StreamData record with amount_withdrawn raised
\* by to_pay and cancelled false, which the next get_stream_data reads, and
\* leaves the StreamData entry of every other stream unchanged.
C16_WithdrawCommitsRecord ==
    [][ (Accepted /\ last'.op = "w_stream")
         => LET i == last'.stream_id + 1
            IN  /\ stream_data'[i]
                     = StreamData(amount_withdrawn(i) + last'.paid, FALSE)
                /\ \A j \in Stored \ {i} : stream_data'[j] = stream_data[j] ]_vars

\* C17: an accepted cancel, self-authorized or delegated, leaves every
\* stored nonce, the stream-id counter, the terms of every stream, the
\* allowances and the StreamData of every other stream unchanged; it marks
\* the stream cancelled and moves tokens only from the contract to the payer.
C17_CancelFrame ==
    [][ (Accepted /\ last'.op = "s_stream")
         => LET i == last'.stream_id + 1
                payer == streams[i].from
            IN  /\ nonces' = nonces
                /\ next_stream_id' = next_stream_id
                /\ streams' = streams
                /\ allowance' = allowance
                /\ \A j \in Stored \ {i} : stream_data'[j] = stream_data[j]
                /\ DOMAIN stream_data' = DOMAIN stream_data
                /\ stream_data'[i].cancelled
                /\ \A h \in Holders \ {Contract, payer} :
                       balance'[h] = balance[h]
                /\ balance'[payer] = balance[payer] + last'.paid
                /\ balance'[Contract] = balance[Contract] - last'.paid ]_vars

\* C17 witness: a delegated cancel, signed by an identity that has spent a
\* nonce before, has refunded tokens while another stream is stored.
C17_Witness ==
    /\ last.op = "s_stream" /\ last.kind = "Ed25519"
    /\ last.paid > 0 /\ nonces[last.id] > 0
    /\ Cardinality(Stored) = 2

\* C18: wherever w_stream computes the amount to transfer (a stream whose
\* StreamData it reads, neither cancelled nor done, at the current time,
\* before start_time included), that amount is not negative; an accepted
\* withdraw pays no negative amount; and no step other than an accepted
\* cancel of the stream lowers a stream's amount_withdrawn.
C18_PayoutNotNegative ==
    /\ [](\A i \in Stored :
            LET e == entitled(streams[i], timestamp, overflow_checks)
            IN  (/\ stream_data_readable(i - 1) /\ Active(i) /\ e.ok)
                 => e.val - amount_withdrawn(i) >= 0)
    /\ [][ /\ (Accepted /\ last'.op = "w_stream") => last'.paid >= 0
           /\ \A i \in Stored :
                \/ Accepted /\ last'.op = "s_stream" /\ last'.stream_id = i - 1
                \/ stream_data'[i].a_withdraw >= amount_withdrawn(i) ]_vars

\* C18 witness: a withdraw was accepted before the stream's start_time and
\* has paid.
C18_Witness ==
    /\ last.op = "w_stream"
    /\ timestamp < streams[last.stream_id + 1].start_time
    /\ last.paid > 0

\* The tokens the contract still holds for a stream.
Held(i) ==
    IF Cancelled(i) THEN 0 ELSE streams[i].amount - amount_withdrawn(i)

RECURSIVE SumHeld(_)
SumHeld(n) == IF n = 0 THEN 0 ELSE Held(n) + SumHeld(n - 1)

\* C19 (as claimed): in every reachable state, for every stored stream the
\* tokens paid to the payee, those refunded to the payer and those still held
\* add up to stream.amount, what was paid out of escrow for the stream is at
\* most stream.amount, and the contract's balance is the sum of the tokens
\* held for the stored streams.
C19_EscrowConserved ==
    /\ \A i \in Stored :
        /\ settled[i].to_payee + settled[i].to_payer + Held(i)
             = streams[i].amount
        /\ settled[i].to_payee + settled[i].to_payer <= streams[i].amount
    /\ balance[Contract] = SumHeld(Len(streams))

\* C20 (as claimed): every stored stream has amount >= 0,
\* end_time > start_time and tick_time > 0.
C20_StoredStreamsWellFormed ==
    \A i \in Stored : streams[i].amount >= 0 /\ WellFormed(streams[i])

====
